---- MODULE Spec2Model ----
(***************************************************************************)
(* FluidSimulation (src/fluid/fluid_simulation.py): the grid fields, the   *)
(* vortex injector, one step(dt) of the solver and the animation driver's  *)
(* update(frame).                                                          *)
(*                                                                         *)
(* Reals are fixed-point integers in millionths (Unit = 1.0): the source's *)
(* 0.001 ramps, the 1e-6 epsilons, the 0.995 dissipation and the 0.01      *)
(* noise amplitude are all whole numbers of millionths.  Products and      *)
(* quotients round to the nearest millionth; sin and exp are computed by   *)
(* their power series in the same arithmetic.                              *)
(***************************************************************************)
EXTENDS Integers, Sequences, FiniteSets, TLC

VARIABLES
    status,         \* "ok": __init__ returned; "failed": __init__ raised
    width, height,  \* self.width, self.height
    density, velocity_x, velocity_y, vorticity,   \* [row][col] fields
    particles_x, particles_y,                     \* [1..NumParticles]
    smoke_buildup, wake_strength, blade_angle,    \* turbine state
    frame_count,    \* main's frame counter (nonlocal of update)
    moved_x, moved_y, \* particle positions of the last step after the
                      \* position update, before the reset (lines 79-87)
    call,           \* the last call made on the simulation, with its inputs
    calls           \* number of calls made so far

vars == <<status, width, height, density, velocity_x, velocity_y, vorticity,
          particles_x, particles_y, smoke_buildup, wake_strength, blade_angle,
          frame_count, moved_x, moved_y, call, calls>>

----------------------------------------------------------------------------
(* Bounds of the model *)

\* The grid main() builds is 200 x 100; the model's grid is Width x Height.
\* Width is large enough to hold cells left of the hub disc (radius 15 around
\* column Width \div 2), the disc, and wake cells right of it.
Width == 36

Height == 2

\* The swarm holds 1000 particles in the source (lines 23-24); the model
\* follows NumParticles of them.
NumParticles == 2

\* Calls made on one simulation under Spec.
MaxCalls == 2

\* Frames the animation runs under SpecRamp: past the 1000 frames the two
\* ramps need to saturate.
RampFrames == 1003

----------------------------------------------------------------------------
(* Fixed-point arithmetic *)

Unit == 1000 * 1000

Abs(a) == IF a < 0 THEN -a ELSE a

Sgn(a) == IF a < 0 THEN -1 ELSE 1

Min(a, b) == IF a <= b THEN a ELSE b

Max(a, b) == IF a >= b THEN a ELSE b

\* a * b of two fixed-point numbers, rounded to the nearest millionth.  The
\* factors are split in thousands so that no intermediate leaves 32 bits.
MulAbs(a, b) ==
    LET ah == a \div 1000
        al == a % 1000
        bh == b \div 1000
        bl == b % 1000
        mid == ah * bl + al * bh
    IN  ah * bh + (mid \div 1000)
          + (((mid % 1000) * 1000 + al * bl + 500000) \div Unit)

Mul(a, b) == Sgn(a) * Sgn(b) * MulAbs(Abs(a), Abs(b))

\* The first `digits` decimal digits of rem / den, as an integer, by long
\* division; the last digit is rounded.
RECURSIVE FracDigits(_, _, _)
FracDigits(rem, den, digits) ==
    IF digits = 0
    THEN IF 2 * rem >= den THEN 1 ELSE 0
    ELSE LET d == (rem * 10) \div den
             r == (rem * 10) % den
         IN  IF digits = 1
             THEN d + (IF 2 * r >= den THEN 1 ELSE 0)
             ELSE d * (10 ^ (digits - 1)) + FracDigits(r, den, digits - 1)

\* a / b of two fixed-point numbers (b # 0), rounded to the nearest millionth.
Div(a, b) ==
    LET n == Abs(a)
        d == Abs(b)
    IN  Sgn(a) * Sgn(b) * ((n \div d) * Unit + FracDigits(n % d, d, 6))

\* np.clip(v, lo, hi) = minimum(maximum(v, lo), hi): hi wins when lo > hi.
Clip(v, lo, hi) == Min(Max(v, lo), hi)

\* ndarray.astype(int): truncation toward zero.
AsInt(v) == Sgn(v) * (Abs(v) \div Unit)

Pi == 3141593

\* sum of the sine series from the term `term` = z^k/k! on, for z in
\* [0, pi/2].
RECURSIVE SinSeries(_, _, _)
SinSeries(z, term, k) ==
    IF k > 13 \/ term = 0
    THEN 0
    ELSE term - SinSeries(z, Mul(Mul(term, z), z) \div ((k + 1) * (k + 2)), k + 2)

\* np.sin(x), x in radians.
Sin(x) ==
    LET t == x % (2 * Pi)
        h == IF t >= Pi THEN t - Pi ELSE t
        z == IF 2 * h > Pi THEN Pi - h ELSE h
        s == Min(Unit, SinSeries(z, z, 1))
    IN  IF t >= Pi THEN -s ELSE s

\* np.cos(x), x in radians: cos(x) = sin(x + pi/2).
Cos(x) == Sin(x + (Pi + 1) \div 2)

\* sum of the series of exp(-z) from the term `term` = z^k/k! on, z in [0, 1].
RECURSIVE ExpSeries(_, _, _)
ExpSeries(z, term, k) ==
    IF k > 14 \/ term = 0
    THEN 0
    ELSE term - ExpSeries(z, Mul(term, z) \div (k + 1), k + 1)

\* np.exp(-z) for z >= 0.
RECURSIVE ExpNeg(_)
ExpNeg(z) ==
    IF z > Unit
    THEN LET half == ExpNeg(z \div 2) IN Mul(half, half)
    ELSE ExpSeries(z, Unit, 0)

----------------------------------------------------------------------------
(* Program constants *)

\* smoke_buildup + 0.001 (line 55), wake_strength + 0.001 (line 131)
RampRate == 1000

\* density[:, 0:5] (lines 19, 56)
SourceCols == 5

\* density[:, 0:2] (line 97)
InletCols == 2

\* blade_mask = r <= 15 (line 111), where_wake: r > 15 (line 133)
HubRadius == 15

WakeLength == 50

WakeWidth == 25

\* sim.blade_angle += 5 (line 229)
BladeIncrement == 5

\* sim.step(0.1) (line 228)
FrameDt == 100000

\* next_density = ... * 0.995 (line 74)
Dissipation == 995000

\* np.random.uniform(-0.01, 0.01, ...) (line 60)
NoiseAmp == 10000

\* np.random.normal(0, 0.2, ...) (line 148)
TurbAmp == 200000

----------------------------------------------------------------------------
(* Inputs *)

\* width and height handed to __init__: the bounded grid, a grid with no
\* columns, one with no rows, and negative sizes.
GridSizes ==
    { <<Width, Height>>, <<0, Height>>, <<Width, 0>>,
      <<-1, Height>>, <<Width, -1>> }

\* dt handed to step.
DtSet == { FrameDt, 500000 }

\* plt.gcf().number: the number of matplotlib's current figure.
FigNumbers == { 1, 2 }

\* Seeds of the random draws of one call.
Seeds == { 0, 1 }

\* np.random.random() < 0.1 of the draw `seed`              (line 146)
Gate(seed) == seed % 2 = 1

\* plt.gcf().number under main(), which opens one figure   (line 170)
MainFigure == 1

\* (cx, cy, radius) handed to add_circular_vortex.
VortexArgs ==
    { <<20, 0, 3>>, <<5, 1, 0>>, <<Width - 1, 1, -1>> }

Rows == 0 .. (height - 1)

Cols == 0 .. (width - 1)

Particles == 1 .. NumParticles

\* np.random.uniform(0, width//4, 1000)[i] of the draw `seed`.
UniformX(seed, i, w) ==
    LET v == << 5900000, 500000, 8300000 >>[((seed + i) % 3) + 1]
    IN  IF v < (w \div 4) * Unit THEN v ELSE 0

\* np.random.uniform(0, height, n)[i] of the draw `seed`: in [0, height).
UniformY(seed, i, h) ==
    IF h = 0
    THEN 0
    ELSE << h * Unit - 340000, 50000, (h * Unit) \div 2 >>[((seed + i) % 3) + 1]

\* np.random.uniform(-0.01, 0.01, shape)[y, x] of the draw `seed`.
NoiseAt(seed, y, x) == NoiseAmp * (((x + y + seed) % 3) - 1)

\* np.random.normal(0, 0.2, shape)[y, x] of the draw `seed`.
TurbulenceAt(seed, y, x) == TurbAmp * (((x + 2 * y + seed) % 3) - 1)

----------------------------------------------------------------------------
(* add_circular_vortex *)

\* mask = r <= radius, r = sqrt((x - cx)**2 + (y - cy)**2)      (lines 36-37)
InDisc(y, x, cx, cy, radius) ==
    /\ radius >= 0
    /\ (x - cx) * (x - cx) + (y - cy) * (y - cy) <= radius * radius

\* dx = -(y - cy) / (radius + 1e-6)                              (line 40)
VortexDx(y, cy, radius) == Div(-(y - cy) * Unit, radius * Unit + 1)

\* dy = (x - cx) / (radius + 1e-6)                               (line 41)
VortexDy(x, cx, radius) == Div((x - cx) * Unit, radius * Unit + 1)

\* Mutant of VortexX: the vortex overwrites the velocity in the disc.
VortexXOverwrite(vx, h, w, cx, cy, radius) ==
    [y \in 0 .. (h - 1) |-> [x \in 0 .. (w - 1) |->
        IF InDisc(y, x, cx, cy, radius)
        THEN VortexDx(y, cy, radius) * 2
        ELSE vx[y][x]]]

\* velocity_x[mask] += dx[mask] * 2                              (line 44)
VortexX(vx, h, w, cx, cy, radius) ==
    [y \in 0 .. (h - 1) |-> [x \in 0 .. (w - 1) |->
        IF InDisc(y, x, cx, cy, radius)
        THEN vx[y][x] + VortexDx(y, cy, radius) * 2
        ELSE vx[y][x]]]

\* velocity_y[mask] += dy[mask] * 2                              (line 45)
VortexY(vy, h, w, cx, cy, radius) ==
    [y \in 0 .. (h - 1) |-> [x \in 0 .. (w - 1) |->
        IF InDisc(y, x, cx, cy, radius)
        THEN vy[y][x] + VortexDy(x, cx, radius) * 2
        ELSE vy[y][x]]]

----------------------------------------------------------------------------
(* __init__ *)

NoCall ==
    [op |-> "init", dt |-> 0, fig |-> 0, seed |-> 0, gate |-> FALSE,
     cx |-> 0, cy |-> 0, radius |-> 0, raised |-> FALSE]

\* np.zeros((height, width)) raises ValueError for a negative dimension
\* (line 12); a dimension of 0 is accepted and gives empty fields.
ConstructorRaises(w, h) == w < 0 \/ h < 0

\* velocity_x after lines 13, 18 and 27, before the vortex of line 28
InitialWind(w, h) ==
    [y \in 0 .. (h - 1) |-> [x \in 0 .. (w - 1) |->
        IF x < w \div 4 THEN 3 * Unit ELSE 2 * Unit]]

Zeros(w, h) == [y \in 0 .. (h - 1) |-> [x \in 0 .. (w - 1) |-> 0]]

Construct(w, h, seed) ==
    /\ width = w
    /\ height = h
    /\ smoke_buildup = 0
    /\ wake_strength = 0
    /\ blade_angle = 0
    /\ frame_count = 0
    /\ call = NoCall
    /\ calls = 0
    /\ IF ConstructorRaises(w, h)
       THEN /\ status = "failed"
            /\ density = << >>
            /\ velocity_x = << >>
            /\ velocity_y = << >>
            /\ vorticity = << >>
            /\ particles_x = << >>
            /\ particles_y = << >>
            /\ moved_x = << >>
            /\ moved_y = << >>
       ELSE /\ status = "ok"
            /\ density = [y \in 0 .. (h - 1) |-> [x \in 0 .. (w - 1) |->
                             IF x < SourceCols THEN 200000 ELSE 0]]
            /\ velocity_x = VortexX(InitialWind(w, h), h, w, w \div 4, h \div 2, 10)
            /\ velocity_y = VortexY(Zeros(w, h), h, w, w \div 4, h \div 2, 10)
            /\ vorticity = Zeros(w, h)
            /\ particles_x = [i \in Particles |-> UniformX(seed, i, w)]
            /\ particles_y = [i \in Particles |-> UniformY(seed, i, h)]
            /\ moved_x = [i \in Particles |-> UniformX(seed, i, w)]
            /\ moved_y = [i \in Particles |-> UniformY(seed, i, h)]

Init == \E g \in GridSizes, seed \in Seeds : Construct(g[1], g[2], seed)

AddCircularVortex(cx, cy, radius) ==
    /\ status = "ok"
    /\ calls < MaxCalls
    /\ velocity_x' = VortexX(velocity_x, height, width, cx, cy, radius)
    /\ velocity_y' = VortexY(velocity_y, height, width, cx, cy, radius)
    /\ call' = [NoCall EXCEPT !.op = "vortex", !.cx = cx, !.cy = cy,
                              !.radius = radius]
    /\ calls' = calls + 1
    /\ UNCHANGED <<status, width, height, density, vorticity, particles_x,
                   particles_y, smoke_buildup, wake_strength, blade_angle,
                   frame_count, moved_x, moved_y>>

----------------------------------------------------------------------------
(* step(dt): the density field *)

\* Mutant of Ramp: the ramp is not capped at 1.0.
RampUncapped(v) == v + RampRate

\* min(1.0, v + 0.001)                                    (lines 55, 131)
Ramp(v) == Min(Unit, v + RampRate)

\* t = plt.gcf().number * dt                              (lines 56, 96)
Phase(fig, dt) == fig * dt

\* smoke_buildup * (0.8 + 0.2 * sin(t))                   (line 56)
SourceLevel(sb, fig, dt) == Mul(sb, 800000 + Mul(200000, Sin(Phase(fig, dt))))

\* density[:, 0:5] = ...                                  (line 56)
Renewed(d, sb, fig, dt) ==
    LET level == SourceLevel(sb, fig, dt)
    IN  [y \in Rows |-> [x \in Cols |->
            IF x < SourceCols THEN level ELSE d[y][x]]]

\* Mutant of Clip01: the noised density is not clamped.
Clip01Off(v) == v

\* np.clip(v, 0, 1)                                       (lines 59-62)
Clip01(v) == Clip(v, 0, Unit)

\* density = clip(density + uniform(-0.01, 0.01), 0, 1)   (lines 59-62)
Diffused(d, seed) ==
    [y \in Rows |-> [x \in Cols |-> Clip01(d[y][x] + NoiseAt(seed, y, x))]]

\* dt_density = dt * 0.5                                  (line 65)
DtDensity(dt) == Mul(dt, 500000)

\* clip(x - velocity_x * dt_density, 0, width-1).astype(int)   (lines 70-74)
SourceCol(y, x, dt) ==
    AsInt(Clip(x * Unit - Mul(velocity_x[y][x], DtDensity(dt)),
               0, (width - 1) * Unit))

\* clip(y - velocity_y * dt_density, 0, height-1).astype(int)  (lines 71-74)
SourceRow(y, x, dt) ==
    AsInt(Clip(y * Unit - Mul(velocity_y[y][x], DtDensity(dt)),
               0, (height - 1) * Unit))

\* Mutant of Dissipate: the resampled density is not dissipated.
DissipateOff(v) == v

\* ... * 0.995                                            (line 74)
Dissipate(v) == Mul(v, Dissipation)

\* next_density = density[coords_y, coords_x] * 0.995     (lines 68-76)
Advected(d, dt) ==
    [y \in Rows |-> [x \in Cols |->
        Dissipate(d[SourceRow(y, x, dt)][SourceCol(y, x, dt)])]]

\* 1.0 + 0.3 * sin(t)                                     (line 97)
InletLevel(fig, dt) == Unit + Mul(300000, Sin(Phase(fig, dt)))

\* density[:, 0:2] = 1.0 + 0.3 * sin(t)                   (lines 96-97)
Inlet(d, fig, dt) ==
    LET level == InletLevel(fig, dt)
    IN  [y \in Rows |-> [x \in Cols |->
            IF x < InletCols THEN level ELSE d[y][x]]]

\* density at the end of step                             (lines 55-76, 95-97)
NextDensity(sb, fig, dt, seed) ==
    Inlet(Advected(Diffused(Renewed(density, sb, fig, dt), seed), dt), fig, dt)

----------------------------------------------------------------------------
(* step(dt): the particles *)

\* np.clip(particles_y.astype(int), 0, height-1)          (lines 80, 85)
CellRow(py) == Clip(AsInt(py), 0, height - 1)

\* np.clip(particles_x.astype(int), 0, width-1)           (lines 81, 86)
CellCol(px) == Clip(AsInt(px), 0, width - 1)

\* particles_x += velocity_x[row, col] * dt               (lines 79-82)
MovedX(i, dt) ==
    particles_x[i]
      + Mul(velocity_x[CellRow(particles_y[i])][CellCol(particles_x[i])], dt)

\* particles_y += velocity_y[row, col] * dt, the column taken from
\* particles_x as line 79 left it                         (lines 84-87)
MovedY(i, dt) ==
    particles_y[i]
      + Mul(velocity_y[CellRow(particles_y[i])][CellCol(MovedX(i, dt))], dt)

\* Mutant of ResetMask: the right and bottom edges count as outside.
ResetMaskInclusive(px, py) ==
    px >= width * Unit \/ px < 0 \/ py >= height * Unit \/ py < 0

\* reset_mask                                             (lines 90-91)
ResetMask(px, py) ==
    px > width * Unit \/ px < 0 \/ py > height * Unit \/ py < 0

\* Mutant of NextParticleX: an ejected particle keeps its x.
NextParticleXNoReset(i, dt) == MovedX(i, dt)

\* particles_x[reset_mask] = 0                            (line 92)
NextParticleX(i, dt) ==
    IF ResetMask(MovedX(i, dt), MovedY(i, dt)) THEN 0 ELSE MovedX(i, dt)

\* particles_y[reset_mask] = uniform(0, height, ...)      (line 93)
NextParticleY(i, dt, seed) ==
    IF ResetMask(MovedX(i, dt), MovedY(i, dt))
    THEN UniformY(seed, i, height)
    ELSE MovedY(i, dt)

----------------------------------------------------------------------------
(* step(dt): the turbine and its wake *)

\* x_rel = x - width // 2, y_rel = y - height // 2        (lines 104-107)
XRel(x) == x - width \div 2

YRel(y) == y - height \div 2

\* blade_mask = r <= 15                                   (lines 108-111)
BladeMask(y, x) ==
    XRel(x) * XRel(x) + YRel(y) * YRel(y) <= HubRadius * HubRadius

\* wake_width * (x_rel / wake_length + 1)                 (lines 118, 140)
WakeHalfWidth(x) == WakeWidth * ((XRel(x) * Unit) \div WakeLength + Unit)

\* wake_mask                                              (line 118)
WakeMask(y, x) ==
    /\ XRel(x) > 0
    /\ Abs(YRel(y)) * Unit < WakeHalfWidth(x)
    /\ XRel(x) < WakeLength

\* Mutant of WhereWake: the hub disc is not excluded from the wake.
WhereWakeWithHub(y, x) == WakeMask(y, x)

\* where_wake = wake_mask & (r > 15)                      (line 133)
WhereWake(y, x) == WakeMask(y, x) /\ ~BladeMask(y, x)

\* angle = blade_angle * pi / 180; sin and cos have period 360 degrees, so
\* the angle is reduced first                             (line 121)
Angle(a) == ((a % 360) * Pi) \div 180

\* blade_effect_x = -sin(angle) * 4                       (line 122)
BladeEffectX(a) == (-Sin(Angle(a))) * 4

\* blade_effect_y = cos(angle) * 4                        (line 123)
BladeEffectY(a) == Cos(Angle(a)) * 4

\* wake_factor = exp(-x_rel / wake_length), on the wake cells   (line 130)
WakeFactor(x) == ExpNeg((XRel(x) * Unit) \div WakeLength)

\* 0.5 * wake_factor * wake_strength                      (lines 136, 139)
SwirlStrength(x, ws) == Mul(Mul(500000, WakeFactor(x)), ws)

\* y_normalized = y_rel / (wake_width * (x_rel/wake_length + 1) + 1e-6)
YNormalized(y, x) == Div(YRel(y) * Unit, WakeHalfWidth(x) + 1)

\* swirl = exp(-y_normalized**2) * sin(x_rel / 10)        (line 141)
Swirl(y, x) ==
    Mul(ExpNeg(Mul(YNormalized(y, x), YNormalized(y, x))),
        Sin((XRel(x) * Unit) \div 10))

\* turbulence * wake_factor * wake_strength               (lines 149-150)
Turbulence(y, x, ws, seed) ==
    Mul(Mul(TurbulenceAt(seed, y, x), WakeFactor(x)), ws)

\* velocity_x at the end of step: the copy (line 100), the blade overwrite
\* (line 126), the wake damping (line 136) and the gated turbulence
\* (line 149), in that order.
NextVelocityX(ws, gate, seed) ==
    LET blade_effect_x == BladeEffectX(blade_angle)
    IN
    [y \in Rows |-> [x \in Cols |->
        LET bladed == IF BladeMask(y, x) THEN blade_effect_x
                      ELSE velocity_x[y][x]
            damped == IF WhereWake(y, x)
                      THEN Mul(bladed, Unit - SwirlStrength(x, ws))
                      ELSE bladed
        IN  IF gate /\ WhereWake(y, x)
            THEN damped + Turbulence(y, x, ws, seed)
            ELSE damped]]

\* velocity_y at the end of step: the copy (line 101), the blade overwrite
\* (line 127), the swirl (line 143) and the gated turbulence (line 150).
NextVelocityY(ws, gate, seed) ==
    LET blade_effect_y == BladeEffectY(blade_angle)
    IN
    [y \in Rows |-> [x \in Cols |->
        LET bladed == IF BladeMask(y, x) THEN blade_effect_y
                      ELSE velocity_y[y][x]
            swirled == IF WhereWake(y, x)
                       THEN bladed + Mul(Swirl(y, x), SwirlStrength(x, ws))
                       ELSE bladed
        IN  IF gate /\ WhereWake(y, x)
            THEN swirled + Turbulence(y, x, ws, seed)
            ELSE swirled]]

\* calculate_vorticity: np.roll wraps around              (lines 47-51)
Vorticity(vx, vy) ==
    [y \in Rows |-> [x \in Cols |->
        (vy[y][(x + 1) % width] - vy[y][(x - 1) % width])
          - (vx[(y + 1) % height][x] - vx[(y - 1) % height][x])]]

----------------------------------------------------------------------------
(* step(dt) and the driver *)

\* On a grid with no rows or no columns the particle update indexes an empty
\* axis with -1 (np.clip(..., 0, -1)) and raises IndexError: step stops at
\* line 79, after the source renewal and the (empty) density pass.
StepRaises == width = 0 \/ height = 0

\* What one call of step(dt) does to the simulation's fields; blade_angle is
\* not assigned anywhere in step.
StepBody(dt, fig, seed) ==
    /\ smoke_buildup' = Ramp(smoke_buildup)
    /\ IF StepRaises
       THEN UNCHANGED <<density, velocity_x, velocity_y, vorticity,
                        particles_x, particles_y, wake_strength,
                        moved_x, moved_y>>
       ELSE /\ density' = NextDensity(Ramp(smoke_buildup), fig, dt, seed)
            /\ moved_x' = [i \in Particles |-> MovedX(i, dt)]
            /\ moved_y' = [i \in Particles |-> MovedY(i, dt)]
            /\ particles_x' = [i \in Particles |-> NextParticleX(i, dt)]
            /\ particles_y' = [i \in Particles |-> NextParticleY(i, dt, seed)]
            /\ wake_strength' = Ramp(wake_strength)
            /\ velocity_x' = NextVelocityX(Ramp(wake_strength), Gate(seed), seed)
            /\ velocity_y' = NextVelocityY(Ramp(wake_strength), Gate(seed), seed)
            /\ vorticity' = Vorticity(velocity_x', velocity_y')
    /\ UNCHANGED <<status, width, height>>

\* sim.step(dt), called directly.
Step(dt, fig, seed) ==
    /\ status = "ok"
    /\ calls < MaxCalls
    /\ StepBody(dt, fig, seed)
    /\ call' = [NoCall EXCEPT !.op = "step", !.dt = dt, !.fig = fig,
                              !.seed = seed, !.gate = Gate(seed),
                              !.raised = StepRaises]
    /\ calls' = calls + 1
    /\ UNCHANGED <<blade_angle, frame_count>>

\* Mutant of NextBladeAngle: the driver does not turn the blades.
NextBladeAngleStuck(a) == a

\* sim.blade_angle += 5                                   (line 229)
NextBladeAngle(a) == a + BladeIncrement

\* update(frame): frame_count += 1; sim.step(0.1); sim.blade_angle += 5.
\* When step raises, the increment of blade_angle is not reached.
UpdateBody(seed) ==
    /\ status = "ok"
    /\ frame_count' = frame_count + 1
    /\ StepBody(FrameDt, MainFigure, seed)
    /\ blade_angle' = IF StepRaises THEN blade_angle
                      ELSE NextBladeAngle(blade_angle)
    /\ call' = [NoCall EXCEPT !.op = "update", !.dt = FrameDt,
                              !.fig = MainFigure,
                              !.seed = seed, !.gate = Gate(seed),
                              !.raised = StepRaises]
    /\ calls' = calls + 1

Update(seed) == calls < MaxCalls /\ UpdateBody(seed)

Next ==
    \/ \E dt \in DtSet, fig \in FigNumbers, seed \in Seeds : Step(dt, fig, seed)
    \/ \E seed \in Seeds : Update(seed)
    \/ \E a \in VortexArgs : AddCircularVortex(a[1], a[2], a[3])

Spec == Init /\ [][Next]_vars

\* main(): the animation calls update once per frame, with the draws of a
\* seeded generator (a function of the frame number).
FrameSeed(n) == IF n % 10 = 9 THEN 1 + 2 * (n % 3) ELSE 2 * (n % 3)

Frame ==
    /\ frame_count < RampFrames
    /\ UpdateBody(FrameSeed(frame_count))

NextRamp == Frame

SpecRamp == Init /\ [][NextRamp]_vars

----------------------------------------------------------------------------
(* Properties *)

\* The last call ran step to its end: step itself, or update, which calls it.
StepReturned(c) == c.op \in {"step", "update"} /\ ~c.raised

\* C1: wake_strength and smoke_buildup start at 0, never decrease from one
\* step to the next, never exceed 1.0, and once at 1.0 stay at 1.0.
C1_RampsMonotoneSaturating ==
    /\ smoke_buildup = 0 /\ wake_strength = 0
    /\ [](smoke_buildup <= Unit /\ wake_strength <= Unit)
    /\ [][/\ smoke_buildup' >= smoke_buildup
          /\ wake_strength' >= wake_strength
          /\ (smoke_buildup = Unit => smoke_buildup' = Unit)
          /\ (wake_strength = Unit => wake_strength' = Unit)]_vars

\* C1 witness: both ramps have reached 1.0 and further steps have run.
C1_Saturated ==
    /\ frame_count > 1001
    /\ smoke_buildup = Unit
    /\ wake_strength = Unit

\* C2: after construction and after every step, every density cell in
\* columns 2..width-1 lies in [0, 1].
C2_DensityInUnitInterval ==
    status = "ok" =>
        \A y \in Rows : \A x \in Cols :
            x >= InletCols => (0 <= density[y][x] /\ density[y][x] <= Unit)

\* C2 witness: two steps have run, the inlet columns hold more than 1.0,
\* and smoke has reached a column right of the source columns.
C2_InletAboveOne ==
    /\ StepReturned(call)
    /\ smoke_buildup = 2 * RampRate
    /\ \E y \in Rows : density[y][0] > Unit /\ density[y][SourceCols] > 0

\* C3: after every step, every cell within distance 15 of the hub centre
\* has velocity (-sin(a)*4, cos(a)*4), a the blade_angle at the time of the
\* step, whatever its velocity was before and whether or not the turbulence
\* gate fired.
C3_HubVelocityOverwritten ==
    [][StepReturned(call') =>
          LET a == ((blade_angle % 360) * Pi) \div 180
              rigid_x == (-Sin(a)) * 4
              rigid_y == Cos(a) * 4
          IN  \A y \in Rows : \A x \in Cols :
                  (x - width \div 2) * (x - width \div 2)
                    + (y - height \div 2) * (y - height \div 2) <= 15 * 15
                  => /\ velocity_x'[y][x] = rigid_x
                     /\ velocity_y'[y][x] = rigid_y]_vars

\* C3 witness: a step with the turbulence gate fired, on a grid with wake
\* cells, after an update turned the blades to 5 degrees: the hub cells,
\* which held the velocity of 0 degrees, hold that of 5 degrees.
C3_HubTurned ==
    /\ call.op = "step" /\ ~call.raised /\ call.gate
    /\ blade_angle = BladeIncrement
    /\ wake_strength = 2 * RampRate
    /\ \E y \in Rows : \E x \in Cols : WhereWake(y, x)
    /\ \E y \in Rows : \E x \in Cols :
          /\ BladeMask(y, x)
          /\ velocity_x[y][x] = BladeEffectX(BladeIncrement)
          /\ velocity_x[y][x] # BladeEffectX(0)

\* C4: add_circular_vortex(cx, cy, radius) leaves the velocity of every cell
\* farther than radius from (cx, cy) unchanged, adds
\* (-(y-cy), (x-cx)) * 2 / (radius + 1e-6) to the velocity of every cell
\* within radius, and touches neither density, particles nor turbine state.
C4_VortexAdditiveLocal ==
    [][call'.op = "vortex" =>
          /\ \A y \in Rows : \A x \in Cols :
                LET cx == call'.cx
                    cy == call'.cy
                    radius == call'.radius
                    d2 == (x - cx) * (x - cx) + (y - cy) * (y - cy)
                IN  IF radius >= 0 /\ d2 <= radius * radius
                    THEN /\ velocity_x'[y][x] = velocity_x[y][x]
                              + Div(-(y - cy) * Unit, radius * Unit + 1) * 2
                         /\ velocity_y'[y][x] = velocity_y[y][x]
                              + Div((x - cx) * Unit, radius * Unit + 1) * 2
                    ELSE /\ velocity_x'[y][x] = velocity_x[y][x]
                         /\ velocity_y'[y][x] = velocity_y[y][x]
          /\ UNCHANGED <<density, particles_x, particles_y, smoke_buildup,
                         wake_strength, blade_angle>>]_vars

\* C4 witness: the vortex of radius 3 at (20, 0) as the first call: cell
\* (21, 1) holds the wind 2.0 and the vortex's share on top of it, and cell
\* (24, 0), outside the disc, holds the wind alone.
C4_VortexAdded ==
    /\ calls = 1 /\ call.op = "vortex" /\ call.radius = 3
    /\ height > 1 /\ width > 24
    /\ velocity_x[1][21] = 2 * Unit + Div(-Unit, 3 * Unit + 1) * 2
    /\ velocity_y[1][21] = Div(Unit, 3 * Unit + 1) * 2
    /\ velocity_x[0][24] = 2 * Unit

\* C5 as claimed: a particle exactly at x == width or y == height after the
\* position update of a step is respawned in that step.
C5_BoundaryRespawned ==
    StepReturned(call) =>
        \A i \in Particles :
            (moved_x[i] = width * Unit \/ moved_y[i] = height * Unit)
            => /\ particles_x[i] = 0
               /\ particles_y[i] = UniformY(call.seed, i, height)

\* C5 as amended: a particle exactly at x == width or y == height after the
\* position update, its other coordinate within the domain, keeps its
\* position; a respawn takes x > width, x < 0, y > height or y < 0.
C5_BoundaryKept ==
    StepReturned(call) =>
        \A i \in Particles :
            /\ (moved_x[i] = width * Unit \/ moved_y[i] = height * Unit)
            /\ 0 <= moved_x[i] /\ moved_x[i] <= width * Unit
            /\ 0 <= moved_y[i] /\ moved_y[i] <= height * Unit
            => /\ particles_x[i] = moved_x[i]
               /\ particles_y[i] = moved_y[i]

\* C5 witness: a step has moved a particle to y == height exactly.
C5_OnBoundary ==
    /\ StepReturned(call)
    /\ \E i \in Particles :
          /\ moved_y[i] = height * Unit
          /\ 0 < moved_x[i] /\ moved_x[i] < width * Unit

\* C6: a particle the position update moves outside [0,width] x [0,height]
\* ends the step at x == 0 and 0 <= y < height; after every step every
\* particle lies inside [0,width] x [0,height], and the number of particles
\* does not change.
C6_ParticlesStayInside ==
    status = "ok" =>
        /\ DOMAIN particles_x = 1 .. NumParticles
        /\ DOMAIN particles_y = 1 .. NumParticles
        /\ \A i \in Particles :
              /\ 0 <= particles_x[i] /\ particles_x[i] <= width * Unit
              /\ 0 <= particles_y[i] /\ particles_y[i] <= height * Unit
              /\ (/\ StepReturned(call)
                  /\ (\/ moved_x[i] > width * Unit \/ moved_x[i] < 0
                      \/ moved_y[i] > height * Unit \/ moved_y[i] < 0))
                 => /\ particles_x[i] = 0
                    /\ 0 <= particles_y[i] /\ particles_y[i] < height * Unit

\* C6 witness: a step has moved a particle above the top of the domain and
\* another has stayed inside.
C6_Respawned ==
    /\ StepReturned(call)
    /\ \E i \in Particles : moved_y[i] > height * Unit /\ particles_x[i] = 0
    /\ \E i \in Particles : particles_x[i] > 0

\* C7 as claimed: one call of step(dt) increases blade_angle by the
\* increment 5, and nothing outside step changes blade_angle, wake_strength
\* or smoke_buildup.
C7_StepTurnsBlades ==
    [][/\ (call'.op = "step" /\ ~call'.raised)
             => blade_angle' = blade_angle + BladeIncrement
       /\ call'.op = "vortex"
             => UNCHANGED <<blade_angle, wake_strength, smoke_buildup>>]_vars

\* C7 as amended: step(dt) leaves blade_angle unchanged; update(frame)
\* increases it by 5 after its call of step(0.1) has returned; wake_strength
\* and smoke_buildup change only inside step, by 0.001 up to 1.0.
C7_DriverTurnsBlades ==
    [][/\ call'.op = "step" => blade_angle' = blade_angle
       /\ (call'.op = "update" /\ ~call'.raised)
             => blade_angle' = blade_angle + 5
       /\ (call'.op = "update" /\ call'.raised) => blade_angle' = blade_angle
       /\ call'.op = "vortex"
             => UNCHANGED <<blade_angle, wake_strength, smoke_buildup>>
       /\ StepReturned(call')
             => /\ smoke_buildup' = Min(Unit, smoke_buildup + 1000)
                /\ wake_strength' = Min(Unit, wake_strength + 1000)]_vars

\* C7 witness: an update and then a step have run: the update has turned
\* the blades to 5 degrees and the step has left them there.
C7_TurnedByUpdate ==
    /\ call.op = "step" /\ ~call.raised
    /\ frame_count = 1
    /\ smoke_buildup = 2 * RampRate
    /\ blade_angle = 5

\* C8 as claimed: FluidSimulation(width, height) with width <= 0 or
\* height <= 0 fails, and add_circular_vortex with radius <= 0 fails.
C8_MalformedRejected ==
    /\ (width <= 0 \/ height <= 0) => status = "failed"
    /\ (call.op = "vortex" /\ call.radius <= 0) => call.raised

\* The source cell of (x, y) in the backward trace of step(dt): traced back
\* by velocity * dt * 0.5, clamped to the grid and floored.
TracedCol(y, x, dt) ==
    Clip(x * Unit - Mul(velocity_x[y][x], Mul(dt, 500000)),
         0, (width - 1) * Unit) \div Unit

TracedRow(y, x, dt) ==
    Clip(y * Unit - Mul(velocity_y[y][x], Mul(dt, 500000)),
         0, (height - 1) * Unit) \div Unit

\* The density of cell (x, y) after the source renewal of a step and before
\* its noise: the step's source level `level` in columns 0-4, the old
\* density elsewhere.
PrePerturbation(y, x, level) == IF x < 5 THEN level ELSE density[y][x]

\* smoke_buildup * (0.8 + 0.2 * sin(number * dt)) of a step.
RenewalLevel(sb, fig, dt) == Mul(sb, 800000 + Mul(200000, Sin(fig * dt)))

\* C9 as claimed: the new density of every cell is 0.995 times the
\* pre-perturbation density (after the source renewal, before the noise and
\* the clamp) at its traced source cell.  Stated for the columns the inlet
\* override of the same step leaves alone.
C9_SamplesPrePerturbation ==
    [][StepReturned(call') =>
          LET level == RenewalLevel(smoke_buildup', call'.fig, call'.dt)
          IN  \A y \in Rows : \A x \in Cols :
                  x >= InletCols =>
                      density'[y][x] =
                          Mul(PrePerturbation(TracedRow(y, x, call'.dt),
                                              TracedCol(y, x, call'.dt),
                                              level),
                              995000)]_vars

\* C9 as amended: the new density of every cell is 0.995 times the density
\* after the source renewal, the noise and the clamp to [0,1] of the same
\* step, at its traced source cell; the new field is built from that field
\* only.
C9_SamplesPerturbed ==
    [][StepReturned(call') =>
          LET level == RenewalLevel(smoke_buildup', call'.fig, call'.dt)
          IN  \A y \in Rows : \A x \in Cols :
                  x >= InletCols =>
                      LET sy == TracedRow(y, x, call'.dt)
                          sx == TracedCol(y, x, call'.dt)
                          noised == PrePerturbation(sy, sx, level)
                                      + NoiseAt(call'.seed, sy, sx)
                      IN  density'[y][x] =
                              Mul(Min(Max(noised, 0), Unit), 995000)]_vars

\* C9 witness: after the first step a cell right of the source columns,
\* empty before the step, holds 0.995 times the noise amplitude, and a cell
\* next to the source columns holds smoke traced from them.
C9_NoiseAdvected ==
    /\ calls = 1 /\ StepReturned(call)
    /\ \E y \in Rows : \E x \in Cols :
          x > SourceCols /\ density[y][x] = Mul(NoiseAmp, 995000)
    /\ \E y \in Rows : density[y][SourceCols] > NoiseAmp

\* C10 as claimed: step advances every particle's x and y by dt times the
\* velocity of one cell, the cell holding the particle's position at the
\* start of the step.
C10_OneCellMovesParticle ==
    [][StepReturned(call') =>
          \A i \in Particles :
              LET row == Clip(AsInt(particles_y[i]), 0, height - 1)
                  col == Clip(AsInt(particles_x[i]), 0, width - 1)
              IN  /\ moved_x'[i] = particles_x[i]
                                     + Mul(velocity_x[row][col], call'.dt)
                  /\ moved_y'[i] = particles_y[i]
                                     + Mul(velocity_y[row][col], call'.dt)]_vars

====
